---- MODULE Spec2Model ----
(***************************************************************************)
(* A model of sg::detail::scope_guard (scope_guard.hpp): the guard's       *)
(* m_active flag, its exit policy, the maker function, the move            *)
(* constructor, dismiss() and the destructor, together with the part of    *)
(* the C++ runtime the guard reads (the count of uncaught exceptions) and  *)
(* reaches (std::terminate out of a noexcept destructor).                  *)
(***************************************************************************)
EXTENDS Integers, FiniteSets, Sequences, TLC

(* ------------------------------ bounds -------------------------------- *)

\* number of guard objects constructed over the one action binding of a run
\* (the maker's guard and the guards move-constructed from it)
MaxGuards == 2
\* largest value of std::uncaught_exceptions() explored
MaxUncaught == 1

Guards == 1..MaxGuards

(* ------------------------ build configuration ------------------------- *)

\* values of __cplusplus the header distinguishes
Standards == {201103, 201703, 202002}

VARIABLES
  cplusplus,        \* __cplusplus of the build
  noexcept_flag,    \* SG_REQUIRE_NOEXCEPT_IN_CPP17 defined
  st,               \* guard slot -> "unborn" | "live" | "destroyed"
  m_active,         \* guard -> scope_guard::m_active
  m_callback,       \* guard -> what scope_guard::m_callback holds
  exit_type,        \* guard -> template argument exit_type
  callback,         \* the properties of the guards' Callback type
  invoked,          \* number of times the bound action was called
  fired,            \* guard -> its destructor called the action
  dismissed,        \* guard -> dismiss() was called on it
  dismiss_calls,    \* guard -> dismiss() calls made on it: 0, 1, 2 (or more)
  moved_from,       \* guard -> the guard it was move-constructed from (0: maker)
  uncaught,         \* std::uncaught_exceptions()
  terminated,       \* std::terminate was called
  escaped,          \* an exception has left a call of the action
  candidate,        \* the argument of the maker call that produced this state
  selected,         \* the exit_type template argument given in that call
  last              \* the operation that produced this state

vars == <<cplusplus, noexcept_flag, st, m_active, m_callback, exit_type,
          callback, invoked, fired, dismissed, dismiss_calls, moved_from,
          uncaught, terminated, escaped, candidate, selected, last>>

config == <<cplusplus, noexcept_flag>>

\* SG_REQUIRE_NOEXCEPT is defined only for C++17 and later builds that ask for it
SG_REQUIRE_NOEXCEPT == cplusplus >= 201703 /\ noexcept_flag

\* enum class ExitType: the last two enumerators exist from C++14 (201411L) on
ExitType ==
  IF cplusplus >= 201411 THEN {"ALWAYS", "ON_SUCCESS", "ON_FAILURE"}
                         ELSE {"ALWAYS"}

AllExitTypes == {"ALWAYS", "ON_SUCCESS", "ON_FAILURE"}

(* --------------------------- callback traits -------------------------- *)

\* A candidate argument of the maker: the properties of the type T of the
\* action and the value category it is passed with.  An lvalue deduces
\* Callback = T& (by_ref), an rvalue deduces Callback = T.
Candidates ==
  { c \in [ noarg        : BOOLEAN,    \* T can be called with no arguments
            void         : BOOLEAN,    \* that call has type void
            nothrow_inv  : BOOLEAN,    \* that call is noexcept
            nothrow_dtor : BOOLEAN,    \* ~T() is noexcept
            ctor         : {"nothrow", "throwing", "deleted"},
                                       \* constructor selected for T(T&&)
            by_ref       : BOOLEAN ] : \* passed as an lvalue
      ~c.noarg => (~c.void /\ ~c.nothrow_inv) }

\* callback_type, had the maker deduced Callback = T for an lvalue too, so
\* that the guard stores a copy of the action instead of a reference to it
callback_type_decayed(c) ==
  [by_ref |-> c.by_ref, nothrow_inv |-> c.nothrow_inv,
   nothrow_ctor |-> (c.ctor = "nothrow"),
   constructible |-> (c.ctor # "deleted")]

\* What the guard knows of its Callback type once it is instantiated;
\* constructible tells whether T itself can be copied or moved
callback_type(c) ==
  [by_ref |-> c.by_ref, nothrow_inv |-> c.nothrow_inv,
   nothrow_ctor |-> (c.by_ref \/ c.ctor = "nothrow"),
   constructible |-> (c.ctor # "deleted")]

NoCallback ==
  [by_ref |-> FALSE, nothrow_inv |-> FALSE, nothrow_ctor |-> FALSE,
   constructible |-> FALSE]

\* The specialization is_noarg_callable_t<T, decltype(declval<T&&>()())>
\* is the one chosen for is_noarg_callable_t<T> (second argument defaulted
\* to void) only when the call expression is valid and has type void
is_noarg_callable_t(c) == c.noarg /\ c.void

returns_void_t(c) == c.void

is_nothrow_invocable_if_required_t(c) ==
  IF SG_REQUIRE_NOEXCEPT THEN c.nothrow_inv ELSE TRUE

\* is_nothrow_destructible, had the fourth check been left out of the contract
is_nothrow_destructible_unchecked(c) == TRUE

\* std::is_nothrow_destructible<Callback>: a reference type always is
is_nothrow_destructible(c) == c.by_ref \/ c.nothrow_dtor

\* and_t, had the last two arguments of std::conditional been exchanged
and_t_swapped(a, b) == IF a THEN a ELSE b

\* and_t<A, B>: conditional<A::value, B, A>, folded to the right
and_t(a, b) == IF a THEN b ELSE a

is_proper_sg_callback_t(c) ==
  and_t(is_noarg_callable_t(c),
        and_t(returns_void_t(c),
              and_t(is_nothrow_invocable_if_required_t(c),
                    is_nothrow_destructible(c))))

\* is_nothrow_constructible, had the maker been declared plain noexcept
is_nothrow_constructible_always(c) == TRUE

\* std::is_nothrow_constructible<Callback, Callback&&>: binding a reference
\* cannot throw; otherwise the selected constructor decides
is_nothrow_constructible(c) == callback_type(c).nothrow_ctor

\* is_constructible, had Callback been deduced as T for an lvalue too, so
\* that the guard has to construct its own T from the caller's object
is_constructible_by_value(c) == c.ctor # "deleted"

\* m_callback(std::forward<Callback>(callback)) is well-formed
is_constructible(c) == c.by_ref \/ c.ctor # "deleted"

(* ------------------------- exit-policy evaluator ---------------------- *)

\* std::uncaught_exception() of C++14/17
uncaught_exception(n) == n > 0

\* should_run, had ALWAYS been given the test of ON_SUCCESS
should_run_unless_unwinding(et, n) ==
  CASE et = "ALWAYS" -> n = 0
    [] et = "ON_SUCCESS" -> n = 0
    [] et = "ON_FAILURE" -> n # 0

\* should_run, had the two tests of the error signal been exchanged
should_run_swapped(et, n) ==
  CASE et = "ALWAYS" -> TRUE
    [] et = "ON_SUCCESS" -> n # 0
    [] et = "ON_FAILURE" -> n = 0

\* should_run, had ON_FAILURE been given the body of ALWAYS
should_run_failure_always(et, n) ==
  CASE et = "ALWAYS" -> TRUE
    [] et = "ON_SUCCESS" -> n = 0
    [] et = "ON_FAILURE" -> TRUE

should_run(et, n) ==
  CASE et = "ALWAYS" -> TRUE
    [] et = "ON_SUCCESS" ->
         IF cplusplus >= 202002 THEN n = 0 ELSE ~uncaught_exception(n)
    [] et = "ON_FAILURE" ->
         IF cplusplus >= 202002 THEN n # 0 ELSE uncaught_exception(n)

(* ------------------------------- state -------------------------------- *)

\* the operation that was last performed, the guard it was performed on
\* (0: none) and how it ended
Op(op, g, outcome) == [op |-> op, g |-> g, outcome |-> outcome]

NoOp == Op("init", 0, "ok")

\* no maker call produced this state
NoCandidate ==
  [noarg |-> FALSE, void |-> FALSE, nothrow_inv |-> FALSE,
   nothrow_dtor |-> FALSE, ctor |-> "none", by_ref |-> FALSE]

Init ==
  /\ cplusplus \in Standards
  /\ noexcept_flag \in BOOLEAN
  /\ st = [g \in Guards |-> "unborn"]
  /\ m_active = [g \in Guards |-> FALSE]
  /\ m_callback = [g \in Guards |-> "none"]
  /\ exit_type = [g \in Guards |-> "ALWAYS"]
  /\ callback = NoCallback
  /\ invoked = 0
  /\ fired = [g \in Guards |-> FALSE]
  /\ dismissed = [g \in Guards |-> FALSE]
  /\ dismiss_calls = [g \in Guards |-> 0]
  /\ moved_from = [g \in Guards |-> 0]
  /\ uncaught = 0
  /\ terminated = FALSE
  /\ escaped = FALSE
  /\ candidate = NoCandidate
  /\ selected = "none"
  /\ last = NoOp

\* guard objects are numbered in the order of their construction
Unborn == {g \in Guards : st[g] = "unborn"}
NextGuard == CHOOSE g \in Unborn : \A h \in Unborn : g <= h

\* the guards that were the source of a completed move construction
MovedOut == {g \in Guards : \E h \in Guards : moved_from[h] = g}

(* ---------------------- the runtime's error signal -------------------- *)

\* an exception is thrown by the code around the guards
Throw ==
  /\ ~terminated
  /\ uncaught < MaxUncaught
  /\ uncaught' = uncaught + 1
  /\ UNCHANGED dismiss_calls
  /\ candidate' = NoCandidate
  /\ selected' = "none"
  /\ last' = Op("env", 0, "ok")
  /\ UNCHANGED <<config, st, m_active, m_callback, exit_type, callback,
                 invoked, fired, dismissed, moved_from, terminated, escaped>>

\* a handler is entered for an exception in flight
Catch ==
  /\ ~terminated
  /\ uncaught > 0
  /\ uncaught' = uncaught - 1
  /\ UNCHANGED dismiss_calls
  /\ candidate' = NoCandidate
  /\ selected' = "none"
  /\ last' = Op("env", 0, "ok")
  /\ UNCHANGED <<config, st, m_active, m_callback, exit_type, callback,
                 invoked, fired, dismissed, moved_from, terminated, escaped>>

(* ------------------------------ the maker ----------------------------- *)

\* InitialActive, had the private constructor initialized m_active to false
InitialActiveFalse == FALSE

\* m_active{true}, in the private constructor
InitialActive == TRUE

\* make_scope_guard<Callback, exit_type>(callback) and the private
\* constructor it calls; a run follows the one binding the maker creates
make_scope_guard(c, et) ==
  /\ ~terminated
  /\ Unborn = Guards
  /\ et \in ExitType
  /\ LET g == NextGuard
     IN IF ~(is_proper_sg_callback_t(c) /\ is_constructible(c))
        THEN \* no such specialization: the call does not compile
             /\ UNCHANGED dismiss_calls
             /\ candidate' = c
             /\ selected' = et
             /\ last' = Op("make", 0, "rejected")
             /\ UNCHANGED <<config, st, m_active, m_callback, exit_type,
                            callback, invoked, fired, dismissed, moved_from,
                            uncaught, terminated, escaped>>
        ELSE \/ \* m_callback(std::forward<Callback>(callback)), m_active{true}
                /\ st' = [st EXCEPT ![g] = "live"]
                /\ m_active' = [m_active EXCEPT ![g] = InitialActive]
                /\ m_callback' = [m_callback EXCEPT
                                    ![g] = IF c.by_ref THEN "ref" ELSE "value"]
                /\ exit_type' = [exit_type EXCEPT ![g] = et]
                /\ callback' = callback_type(c)
                /\ UNCHANGED dismiss_calls
                /\ candidate' = c
                /\ selected' = et
                /\ last' = Op("make", g, "ok")
                /\ UNCHANGED <<config, invoked, fired, dismissed, moved_from,
                               uncaught, terminated, escaped>>
             \/ \* the constructor of Callback throws: no guard comes to exist
                /\ ~is_nothrow_constructible(c)
                /\ uncaught < MaxUncaught
                /\ uncaught' = uncaught + 1
                /\ UNCHANGED dismiss_calls
                /\ candidate' = c
                /\ selected' = et
                /\ last' = Op("make", 0, "threw")
                /\ UNCHANGED <<config, st, m_active, m_callback, exit_type,
                               callback, invoked, fired, dismissed,
                               moved_from, terminated, escaped>>

\* make_scope_guard(callback) with no exit_type given: the defined maker
\* cannot deduce exit_type and gives it no default, so the call resolves to
\* the declaration template<typename Callback> detail::scope_guard<Callback>
\* make_scope_guard(Callback&&), for which the header has no definition
make_scope_guard_undefined(c) ==
  /\ ~terminated
  /\ Unborn = Guards
  /\ candidate' = c
  /\ selected' = "none"
  /\ last' = Op("make_declared", 0,
                IF is_proper_sg_callback_t(c) /\ is_constructible(c)
                THEN "undefined" ELSE "rejected")
  /\ UNCHANGED <<config, st, m_active, m_callback, exit_type, callback,
                 invoked, fired, dismissed, dismiss_calls, moved_from,
                 uncaught, terminated, escaped>>

(* ------------------------- the move constructor ----------------------- *)

\* MovedActive, had the new guard's flag been initialized to true
MovedActiveAlways(a) == TRUE

\* MovedActive, had the new guard's flag been initialized to false
MovedActiveLost(a) == FALSE

\* m_active{std::move(other.m_active)}: what the new guard's flag becomes
MovedActive(a) == a

\* SourceActiveAfterMove, had the body of the constructor been left empty
SourceActiveKept(a) == a

\* other.m_active = false, in the constructor's body
SourceActiveAfterMove(a) == FALSE

\* SourceActiveAfterFailedMove, had other.m_active been cleared before the
\* action is transferred
SourceDeactivatedEarly(a) == FALSE

\* other.m_active when the initialization of m_callback throws: the later
\* member initializer and the body are never reached
SourceActiveAfterFailedMove(a) == a

\* scope_guard(scope_guard&& other)
scope_guard_move(other) ==
  /\ ~terminated
  /\ st[other] = "live"
  /\ Unborn # {}
  /\ LET g == NextGuard
     IN \/ /\ st' = [st EXCEPT ![g] = "live"]
           /\ m_callback' =
                IF callback.by_ref
                THEN [m_callback EXCEPT ![g] = "ref"]
                ELSE [m_callback EXCEPT ![g] = "value", ![other] = "moved_from"]
           /\ exit_type' = [exit_type EXCEPT ![g] = exit_type[other]]
           /\ m_active' = [m_active EXCEPT
                             ![g] = MovedActive(m_active[other]),
                             ![other] = SourceActiveAfterMove(m_active[other])]
           /\ moved_from' = [moved_from EXCEPT ![g] = other]
           /\ UNCHANGED dismiss_calls
           /\ candidate' = NoCandidate
           /\ selected' = "none"
           /\ last' = Op("move", other, "ok")
           /\ UNCHANGED <<config, callback, invoked, fired, dismissed,
                          uncaught, terminated, escaped>>
        \/ \* the constructor of Callback throws out of the mem-initializer
           /\ ~callback.nothrow_ctor
           /\ uncaught < MaxUncaught
           /\ uncaught' = uncaught + 1
           /\ m_active' = [m_active EXCEPT
                  ![other] = SourceActiveAfterFailedMove(m_active[other])]
           /\ UNCHANGED dismiss_calls
           /\ candidate' = NoCandidate
           /\ selected' = "none"
           /\ last' = Op("move", other, "threw")
           /\ UNCHANGED <<config, st, m_callback, exit_type, callback,
                          invoked, fired, dismissed, moved_from, terminated, escaped>>

(* ------------------------------- dismiss ------------------------------ *)

\* DismissedActive, had the body of dismiss() been left empty
DismissKeepsActive(a) == a

\* DismissedActive, had dismiss() flipped the flag instead of clearing it
DismissToggles(a) == ~a

\* m_active = false, in dismiss()
DismissedActive(a) == FALSE

\* DismissTargets, had the guards made from g by a move shared its flag
DismissTargetsWithDestinations(g) ==
  {g} \cup {h \in Guards : moved_from[h] = g}

\* the objects whose m_active dismiss() writes: m_active is a non-static
\* data member, so only the one of the guard it is called on
DismissTargets(g) == {g}

\* void dismiss() noexcept
dismiss(g) ==
  /\ ~terminated
  /\ st[g] = "live"
  /\ m_active' = [h \in Guards |->
                    IF h \in DismissTargets(g)
                    THEN DismissedActive(m_active[h]) ELSE m_active[h]]
  /\ dismissed' = [dismissed EXCEPT ![g] = TRUE]
  /\ dismiss_calls' = [dismiss_calls EXCEPT ![g] = IF @ < 2 THEN @ + 1 ELSE @]
  /\ candidate' = NoCandidate
  /\ selected' = "none"
  /\ last' = Op("dismiss", g, "ok")
  /\ UNCHANGED <<config, st, m_callback, exit_type, callback, invoked,
                 fired, moved_from, uncaught, terminated, escaped>>

(* ----------------------------- the destructor ------------------------- *)

\* DtorRuns, had the destructor not tested m_active
DtorRunsIgnoringActive(active, et, n) == should_run(et, n)

\* if(m_active && should_run<exit_type>::should_run())
DtorRuns(active, et, n) == active /\ should_run(et, n)

\* DtorEscape, had the destructor been declared noexcept(false)
DtorEscapePropagates == "threw"

\* what becomes of an exception that leaves m_callback(): the destructor is
\* declared noexcept, so the runtime calls std::terminate
DtorEscape == "terminate"

\* ~scope_guard() noexcept
scope_guard_dtor(g) ==
  /\ ~terminated
  /\ st[g] = "live"
  /\ LET run == DtorRuns(m_active[g], exit_type[g], uncaught)
     IN \/ \* the condition is false, or m_callback() returns
           /\ st' = [st EXCEPT ![g] = "destroyed"]
           /\ invoked' = IF run THEN invoked + 1 ELSE invoked
           /\ fired' = [fired EXCEPT ![g] = run]
           /\ UNCHANGED dismiss_calls
           /\ candidate' = NoCandidate
           /\ selected' = "none"
           /\ last' = Op("dtor", g, "ok")
           /\ UNCHANGED <<config, m_active, m_callback, exit_type, callback,
                          dismissed, moved_from, uncaught, terminated, escaped>>
        \/ \* m_callback() exits with an exception
           /\ run
           /\ ~callback.nothrow_inv
           /\ invoked' = invoked + 1
           /\ fired' = [fired EXCEPT ![g] = TRUE]
           /\ escaped' = TRUE
           /\ IF DtorEscape = "terminate"
              THEN /\ terminated' = TRUE
                   /\ UNCHANGED dismiss_calls
                   /\ candidate' = NoCandidate
                   /\ selected' = "none"
                   /\ last' = Op("dtor", g, "terminate")
                   /\ UNCHANGED <<st, uncaught>>
              ELSE /\ st' = [st EXCEPT ![g] = "destroyed"]
                   /\ uncaught' = IF uncaught < MaxUncaught
                                  THEN uncaught + 1 ELSE uncaught
                   /\ UNCHANGED dismiss_calls
                   /\ candidate' = NoCandidate
                   /\ selected' = "none"
                   /\ last' = Op("dtor", g, "threw")
                   /\ UNCHANGED terminated
           /\ UNCHANGED <<config, m_active, m_callback, exit_type, callback,
                          dismissed, moved_from>>

(* --------------------------- the specification ------------------------ *)

Next ==
  \/ Throw
  \/ Catch
  \/ \E c \in Candidates, et \in AllExitTypes : make_scope_guard(c, et)
  \/ \E c \in Candidates : make_scope_guard_undefined(c)
  \/ \E g \in Guards : scope_guard_move(g)
  \/ \E g \in Guards : dismiss(g)
  \/ \E g \in Guards : scope_guard_dtor(g)

Spec == Init /\ [][Next]_vars

TypeOK ==
  /\ cplusplus \in Standards
  /\ noexcept_flag \in BOOLEAN
  /\ st \in [Guards -> {"unborn", "live", "destroyed"}]
  /\ m_active \in [Guards -> BOOLEAN]
  /\ m_callback \in [Guards -> {"none", "ref", "value", "moved_from"}]
  /\ exit_type \in [Guards -> AllExitTypes]
  /\ invoked \in 0..MaxGuards
  /\ fired \in [Guards -> BOOLEAN]
  /\ dismissed \in [Guards -> BOOLEAN]
  /\ dismiss_calls \in [Guards -> 0..2]
  /\ moved_from \in [Guards -> Guards \cup {0}]
  /\ uncaught \in 0..MaxUncaught
  /\ terminated \in BOOLEAN
  /\ escaped \in BOOLEAN
  /\ candidate \in Candidates \cup {NoCandidate}
  /\ selected \in AllExitTypes \cup {"none"}

(* ------------------------------ the claims ---------------------------- *)

\* the guards that have been constructed
Constructed == {g \in Guards : st[g] # "unborn"}

\* the guards that are constructed and not yet destroyed
Live == {g \in Guards : st[g] = "live"}

\* the step is the end-of-life of guard g: its destructor is entered
DtorStep(g) == st[g] = "live" /\ last'.op = "dtor" /\ last'.g = g

\* In a run without dismiss, guard g was given the right to invoke when it
\* was constructed: by the maker, or by a move from a guard that had that
\* right and had not yet given it away to an earlier destination
RECURSIVE BornActive(_)
BornActive(g) ==
  IF moved_from[g] = 0
  THEN st[g] # "unborn"
  ELSE /\ BornActive(moved_from[g])
       /\ \A h \in Guards : moved_from[h] = moved_from[g] => h >= g

\* C1: whatever moves, dismiss calls and destructions were applied to the
\* guards of the binding, the action has been called at most once
C1_AtMostOnce == invoked <= 1

\* a moved binding all of whose guards are destroyed, and one call
C1_Witness ==
  /\ invoked = 1
  /\ \E g \in Guards : moved_from[g] # 0
  /\ \A g \in Guards : st[g] = "destroyed"

\* C2: policy ALWAYS and no dismiss: once every guard constructed over the
\* binding is destroyed, the action has been called exactly once, whatever
\* the error signal was at the destructions
C2_AlwaysExactlyOnce ==
  ( /\ Constructed # {}
    /\ \A g \in Constructed :
         st[g] = "destroyed" /\ ~dismissed[g] /\ exit_type[g] = "ALWAYS" )
  => invoked = 1

\* the last guard of a moved ALWAYS binding has just been destroyed while an
\* exception was in flight, and the action ran
C2_Witness ==
  /\ \A g \in Guards : st[g] = "destroyed" /\ ~dismissed[g]
                       /\ exit_type[g] = "ALWAYS"
  /\ last.op = "dtor" /\ fired[last.g]
  /\ uncaught > 0
  /\ invoked = 1

\* C3: a guard on which dismiss was called does not call the action when it
\* is destroyed, under every policy and every value of the error signal
C3_DismissedNeverFires ==
  \A g \in Guards : dismissed[g] /\ st[g] = "destroyed" => ~fired[g]

\* a dismissed ON_FAILURE guard has just been destroyed with an exception in
\* flight (the policy alone would have run the action) and did not run it
C3_Witness ==
  /\ last.op = "dtor" /\ last.outcome = "ok"
  /\ dismissed[last.g] /\ st[last.g] = "destroyed"
  /\ exit_type[last.g] = "ON_FAILURE" /\ uncaught > 0
  /\ ~fired[last.g] /\ invoked = 0

\* C4: no dismiss, policy ALWAYS: when a guard g1 holding the right to invoke
\* was moved into g2 and both are destroyed (in either order), the action
\* was called exactly once, by the destructor of g2 and not by that of g1
C4_MovedGuardFires ==
  (\A g \in Guards : ~dismissed[g]) =>
    \A g1, g2 \in Guards :
      ( /\ moved_from[g2] = g1
        /\ BornActive(g2)
        /\ g2 \notin MovedOut
        /\ exit_type[g2] = "ALWAYS"
        /\ st[g1] = "destroyed" /\ st[g2] = "destroyed" )
      => (fired[g2] /\ ~fired[g1] /\ invoked = 1)

\* the destination was destroyed first and the source has just followed
C4_Witness ==
  /\ \A g \in Guards : ~dismissed[g]
  /\ \E g1, g2 \in Guards :
       /\ moved_from[g2] = g1 /\ moved_from[g1] = 0
       /\ exit_type[g2] = "ALWAYS"
       /\ st[g1] = "destroyed" /\ st[g2] = "destroyed"
       /\ last.op = "dtor" /\ last.g = g1
       /\ fired[g2] /\ ~fired[g1] /\ invoked = 1

\* C5: among the live guards of the binding at most one has m_active true
C5_AtMostOneActive ==
  Cardinality({g \in Live : m_active[g]}) <= 1

\* a move has just completed: source and destination are both live, the
\* destination is active and the source is not
C5_Witness ==
  /\ last.op = "move" /\ last.outcome = "ok"
  /\ \E g \in Live :
       /\ moved_from[g] = last.g
       /\ m_active[g]
       /\ last.g \in Live /\ ~m_active[last.g]

\* C6: policy ON_SUCCESS: the destructor of an active guard calls the action
\* when no exception is in flight at that instant, and does not call it when
\* one is
C6_OnSuccess ==
  [][\A g \in Guards :
       (DtorStep(g) /\ m_active[g] /\ exit_type[g] = "ON_SUCCESS") =>
         /\ uncaught = 0 => (fired'[g] /\ invoked' = invoked + 1)
         /\ uncaught # 0 => (~fired'[g] /\ invoked' = invoked)]_vars

\* an active ON_SUCCESS guard has just been destroyed with no exception in
\* flight, and its destructor called the action
C6_Witness ==
  /\ last.op = "dtor"
  /\ exit_type[last.g] = "ON_SUCCESS" /\ m_active[last.g]
  /\ uncaught = 0
  /\ fired[last.g] /\ invoked = 1

\* C7: policy ON_FAILURE: the destructor of an active guard calls the action
\* if and only if an exception is in flight at that instant; for every value
\* of the signal ON_FAILURE decides the opposite of ON_SUCCESS
C7_OnFailure ==
  [][/\ \A g \in Guards :
          (DtorStep(g) /\ m_active[g] /\ exit_type[g] = "ON_FAILURE") =>
            /\ fired'[g] <=> uncaught # 0
            /\ invoked' = IF uncaught # 0 THEN invoked + 1 ELSE invoked
     /\ "ON_FAILURE" \in ExitType =>
          (should_run("ON_FAILURE", uncaught)
             <=> ~should_run("ON_SUCCESS", uncaught))]_vars

\* an active ON_FAILURE guard has just been destroyed with an exception in
\* flight, and its destructor called the action
C7_Witness ==
  /\ last.op = "dtor"
  /\ exit_type[last.g] = "ON_FAILURE" /\ m_active[last.g]
  /\ uncaught # 0
  /\ fired[last.g] /\ invoked = 1

\* C8: when an exception leaves the action called by a destructor, the
\* process terminates: the destructor does not return, no exception leaves
\* it for the enclosing code, and the failure is not discarded
C8_FailureTerminates ==
  [][/\ escaped' => terminated'
     /\ \A g \in Guards :
          DtorStep(g) =>
            /\ last'.outcome \in {"ok", "terminate"}
            /\ uncaught' = uncaught
            /\ (escaped' /\ ~escaped) =>
                 (last'.outcome = "terminate" /\ st'[g] = "live")]_vars

\* a destructor called the action, an exception left the action, and the
\* process was terminated
C8_Witness ==
  /\ escaped /\ terminated
  /\ last = Op("dtor", last.g, "terminate")
  /\ fired[last.g] /\ st[last.g] = "live"

\* C9: when a move construction is interrupted by an exception thrown while
\* the action is transferred, the source keeps the m_active it had, no
\* destination guard exists, and C1 and C5 hold afterwards
C9_FailedMoveKeepsOwnership ==
  [][(last'.op = "move" /\ last'.outcome = "threw") =>
       /\ m_active'[last'.g] = m_active[last'.g]
       /\ st' = st
       /\ st'[NextGuard] = "unborn"
       /\ C1_AtMostOnce' /\ C5_AtMostOneActive']_vars

\* a move of an active guard has just failed: the source is still the one
\* active live guard and no other guard exists
C9_Witness ==
  /\ last.op = "move" /\ last.outcome = "threw"
  /\ Live = {last.g} /\ Constructed = {last.g}
  /\ m_active[last.g]
  /\ uncaught > 0

\* C10 as stated: neither dismiss nor a move construction ever ends in an
\* error
C10_Original ==
  last.op \in {"dismiss", "move"} => last.outcome = "ok"

\* C10 as amended: dismiss never ends in an error; a move construction never
\* ends in an error when the guard holds its action by reference or the
\* constructor selected to move the action cannot throw
C10_NoFailUnlessCtorThrows ==
  /\ last.op = "dismiss" => last.outcome = "ok"
  /\ (last.op = "move" /\ (callback.by_ref \/ callback.nothrow_ctor))
       => last.outcome = "ok"

\* a dismiss has just returned on a guard that a completed move of a
\* by-reference action produced
C10_Witness ==
  /\ last = Op("dismiss", last.g, "ok")
  /\ moved_from[last.g] # 0
  /\ callback.by_ref
  /\ ~m_active[last.g]

\* the candidate passes the validity contract and can be stored in a guard
Accepted(c) == is_proper_sg_callback_t(c) /\ is_constructible(c)

\* C11 as stated: for every action that passes the validity contract the
\* maker call completes and yields an active guard
C11_Original ==
  (last.op = "make" /\ Accepted(candidate)) =>
    /\ last.outcome = "ok"
    /\ last.g \in Live /\ m_active[last.g]

\* C11 as amended: the maker call completes and yields an active guard for
\* every accepted action that is passed as an lvalue or whose selected
\* constructor cannot throw; when the call ends in an exception no guard exists
C11_MakeSucceedsUnlessCtorThrows ==
  /\ ( /\ last.op = "make" /\ Accepted(candidate)
       /\ (candidate.by_ref \/ candidate.ctor = "nothrow") )
     => ( /\ last.outcome = "ok"
          /\ last.g \in Live /\ m_active[last.g] )
  /\ (last.op = "make" /\ last.outcome = "ok")
     => (last.g \in Live /\ m_active[last.g])
  /\ (last.op = "make" /\ last.outcome = "threw")
     => (Constructed = {} /\ ~candidate.by_ref /\ candidate.ctor = "throwing")

\* the maker has just returned an active guard for an action passed by value
\* whose selected constructor cannot throw
C11_Witness ==
  /\ last.op = "make" /\ last.outcome = "ok"
  /\ ~candidate.by_ref /\ candidate.ctor = "nothrow"
  /\ Accepted(candidate)
  /\ last.g \in Live /\ m_active[last.g]

\* C12: the maker is declared noexcept exactly when storing the action
\* cannot throw.  For an lvalue it is noexcept and returns normally, also
\* when the action's copy, move or destruction may throw; for an rvalue it
\* is noexcept if and only if the constructor selected to move the action
\* cannot throw, and it throws only when it is not noexcept
C12_MakerNoexcept ==
  (last.op = "make" /\ Accepted(candidate)) =>
    /\ is_nothrow_constructible(candidate) => last.outcome = "ok"
    /\ candidate.by_ref =>
         (is_nothrow_constructible(candidate) /\ last.outcome = "ok")
    /\ ~candidate.by_ref =>
         (is_nothrow_constructible(candidate) <=> candidate.ctor # "throwing")
    /\ last.outcome = "threw" =>
         (~candidate.by_ref /\ candidate.ctor = "throwing")

\* the maker has just returned a guard for an lvalue whose type has a
\* throwing constructor and a throwing destructor
C12_Witness ==
  /\ last.op = "make" /\ last.outcome = "ok"
  /\ candidate.by_ref
  /\ candidate.ctor = "throwing" /\ ~candidate.nothrow_dtor
  /\ m_callback[last.g] = "ref"

\* C13: dismiss is idempotent: a dismiss call on a guard that was already
\* dismissed changes nothing of any guard (the guard stays inactive and
\* live, no action is called), and a dismissed guard has not fired
C13_DismissIdempotent ==
  [][/\ \A g \in Guards :
          (last'.op = "dismiss" /\ last'.g = g) =>
            /\ ~m_active'[g] /\ st'[g] = "live"
            /\ invoked' = invoked /\ fired' = fired
            /\ dismiss_calls[g] >= 1 =>
                 <<st, m_active, m_callback, exit_type, callback,
                   dismissed, moved_from, uncaught, terminated>>'
                 = <<st, m_active, m_callback, exit_type, callback,
                     dismissed, moved_from, uncaught, terminated>>
     /\ \A g \in Guards : dismiss_calls'[g] >= 1 => ~fired'[g]]_vars

\* dismiss has just returned for the second time on the same guard
C13_Witness ==
  /\ last.op = "dismiss" /\ dismiss_calls[last.g] = 2
  /\ ~m_active[last.g] /\ st[last.g] = "live"
  /\ invoked = 0

\* C14: the m_active of a constructed guard never goes from false to true,
\* and it goes from true to false only in a dismiss() call on the guard or
\* in a completed move construction from the guard
C14_NeverReactivated ==
  [][\A g \in Constructed :
       /\ ~m_active[g] => ~m_active'[g]
       /\ (m_active[g] /\ ~m_active'[g]) =>
            /\ last'.g = g
            /\ \/ last'.op = "dismiss"
               \/ last'.op = "move" /\ last'.outcome = "ok"]_vars

\* a guard made inactive by a move from it has since been dismissed as well
\* and is still inactive, while the guard moved from it is active
C14_Witness ==
  /\ last.op = "dismiss"
  /\ last.g \in MovedOut /\ last.g \in Live /\ ~m_active[last.g]
  /\ \E h \in Live : moved_from[h] = last.g /\ m_active[h]

\* C15: a completed move construction gives the new guard the policy of the
\* source and the m_active the source had just before, and leaves the source
\* inactive; so a guard moved from a dismissed guard is inactive, and the
\* destructor of an inactive guard does not call the action
C15_MoveTransfers ==
  [][/\ (last'.op = "move" /\ last'.outcome = "ok") =>
          /\ st'[NextGuard] = "live"
          /\ moved_from'[NextGuard] = last'.g
          /\ exit_type'[NextGuard] = exit_type[last'.g]
          /\ exit_type'[last'.g] = exit_type[last'.g]
          /\ m_active'[NextGuard] = m_active[last'.g]
          /\ ~m_active'[last'.g]
          /\ dismissed[last'.g] => ~m_active'[NextGuard]
     /\ \A g \in Constructed :
          ~m_active[g] => (fired'[g] = fired[g]
                           /\ (DtorStep(g) => invoked' = invoked))]_vars

\* a guard move-constructed from a dismissed guard, never dismissed itself
\* and never moved from, has just been destroyed under ALWAYS without
\* calling the action
C15_Witness ==
  /\ last.op = "dtor" /\ st[last.g] = "destroyed"
  /\ moved_from[last.g] # 0 /\ dismissed[moved_from[last.g]]
  /\ ~dismissed[last.g] /\ last.g \notin MovedOut
  /\ exit_type[last.g] = "ALWAYS"
  /\ ~m_active[last.g] /\ ~fired[last.g] /\ invoked = 0

\* C16: the validity predicate accepts the Callback type of a maker call if
\* and only if it is callable with no arguments, the call returns void, the
\* call is noexcept when SG_REQUIRE_NOEXCEPT is defined, and the type is
\* nothrow destructible; without SG_REQUIRE_NOEXCEPT the third check passes
\* for every candidate, so a candidate that fails only the noexcept check is
\* accepted exactly in the builds without SG_REQUIRE_NOEXCEPT; a candidate
\* the predicate refuses yields no guard
C16_ValidityIsConjunction ==
  last.op = "make" =>
    LET c == candidate
        dtor_ok == c.by_ref \/ c.nothrow_dtor
    IN /\ is_proper_sg_callback_t(c)
            <=> ( /\ c.noarg
                  /\ c.void
                  /\ (SG_REQUIRE_NOEXCEPT => c.nothrow_inv)
                  /\ dtor_ok )
       /\ ~SG_REQUIRE_NOEXCEPT => is_nothrow_invocable_if_required_t(c)
       /\ (c.noarg /\ c.void /\ dtor_ok /\ ~c.nothrow_inv)
            => (is_proper_sg_callback_t(c) <=> ~SG_REQUIRE_NOEXCEPT)
       /\ ~is_proper_sg_callback_t(c)
            => (last.outcome = "rejected" /\ Constructed = {})

\* with SG_REQUIRE_NOEXCEPT defined, a maker call has just been refused for
\* a candidate whose only failing check is the noexcept one
C16_Witness ==
  /\ last.op = "make" /\ last.outcome = "rejected"
  /\ SG_REQUIRE_NOEXCEPT
  /\ candidate.noarg /\ candidate.void /\ candidate.nothrow_dtor
  /\ candidate.ctor = "nothrow"
  /\ ~candidate.nothrow_inv
  /\ Constructed = {}

\* C17 as stated: an action whose destructor may throw is refused by the
\* maker
C17_Original ==
  (last.op = "make" /\ ~candidate.nothrow_dtor) => last.outcome = "rejected"

\* C17 as amended: an action whose destructor may throw is refused by the
\* maker when it is passed by value (a temporary or a moved object), also
\* when its call is safe; passed as an lvalue it is stored by reference and
\* accepted whenever the other checks pass
C17_ThrowingDtorByValueRejected ==
  (last.op = "make" /\ ~candidate.nothrow_dtor) =>
    /\ ~candidate.by_ref =>
         (last.outcome = "rejected" /\ Constructed = {})
    /\ ( /\ candidate.by_ref /\ candidate.noarg /\ candidate.void
         /\ (SG_REQUIRE_NOEXCEPT => candidate.nothrow_inv) )
       => (last.outcome = "ok" /\ m_callback[last.g] = "ref")

\* a maker call has just been refused for an action passed by value whose
\* destructor is the only non-conforming part
C17_Witness ==
  /\ last.op = "make" /\ last.outcome = "rejected"
  /\ ~candidate.by_ref /\ ~candidate.nothrow_dtor
  /\ candidate.noarg /\ candidate.void /\ candidate.nothrow_inv
  /\ candidate.ctor = "nothrow"
  /\ Constructed = {}

\* C18 (as stated): a maker call that passes the validity contract and does
\* not fail produces a guard whose policy is the exit_type the caller
\* selected, and ALWAYS when the caller selected none.
C18_PolicyAsSelected ==
  ( /\ last.op \in {"make", "make_declared"}
    /\ Accepted(candidate)
    /\ last.outcome # "threw" )
  => /\ last.g \in Live
     /\ exit_type[last.g] = IF selected = "none" THEN "ALWAYS" ELSE selected

\* C18 (the part the code keeps): a maker call with an explicit exit_type
\* that produces a guard gives the guard that exit_type, and no later step
\* changes the exit_type of a constructed guard.
C18_SelectedPolicyFixed ==
  [][ /\ (last'.op = "make" /\ last'.outcome = "ok")
         => exit_type'[last'.g] = selected'
      /\ \A g \in Constructed : exit_type'[g] = exit_type[g] ]_vars

\* a guard made with a policy other than ALWAYS has been moved from,
\* dismissed and destroyed, and still carries that policy
C18_Witness ==
  \E g \in Guards :
    /\ st[g] = "destroyed"
    /\ exit_type[g] = "ON_FAILURE"
    /\ moved_from[g] = 0
    /\ g \in MovedOut
    /\ dismissed[g]

\* the maker has been called without an exit_type on an acceptable callback
C18_DefaultCall ==
  /\ last.op = "make_declared"
  /\ last.outcome = "undefined"
  /\ selected = "none"

\* C19: an action that can be neither copied nor moved is accepted when it
\* is passed as an existing object (and passes the rest of the validity
\* contract): the guard holds a reference to the caller's object, every
\* guard of the binding holds that same reference whatever relocations
\* happen, no relocation runs (or fails in) a constructor of the action or
\* leaves a moved-from action behind, and a guard that invokes at its
\* end-of-life invokes through that reference.
C19_NonMovableActionByReference ==
  /\ ( /\ last.op = "make"
       /\ candidate.by_ref /\ candidate.ctor = "deleted"
       /\ is_proper_sg_callback_t(candidate) )
     => ( /\ last.outcome = "ok"
          /\ m_callback[last.g] = "ref"
          /\ ~callback.constructible )
  /\ (callback.by_ref /\ ~callback.constructible)
     => ( /\ \A g \in Constructed : m_callback[g] = "ref"
          /\ ~(last.op = "move" /\ last.outcome = "threw")
          /\ \A g \in Guards : fired[g] => m_callback[g] = "ref" )

\* a guard bound to a non-copyable, non-movable action has been relocated,
\* and the guard it was relocated into has invoked the action
C19_Witness ==
  /\ callback.by_ref /\ ~callback.constructible
  /\ \E g \in Guards :
       /\ moved_from[g] # 0
       /\ st[g] = "destroyed"
       /\ fired[g]
       /\ m_callback[g] = "ref"
       /\ m_callback[moved_from[g]] = "ref"

\* C20 (as stated): for ON_SUCCESS and ON_FAILURE the error signal concerns
\* the guard's own scope.  The case checked: the maker constructs guard g
\* while an exception is already in flight and the very next step is the
\* end-of-life of g, so that nothing was thrown inside the scope of g and
\* it is left normally; then g invokes the action under ON_SUCCESS and does
\* not invoke it under ON_FAILURE.
C20_OwnScopeSignal ==
  [][ \A g \in Guards :
        ( /\ DtorStep(g)
          /\ last.op = "make" /\ last.outcome = "ok" /\ last.g = g
          /\ uncaught > 0 )
        => /\ exit_type[g] = "ON_SUCCESS" => fired'[g]
           /\ exit_type[g] = "ON_FAILURE" => ~fired'[g] ]_vars

\* C20 (what the code does): the destructor asks the runtime whether any
\* exception is in flight, whenever it was thrown; a guard constructed
\* during unwinding and destroyed at once is treated as a failed exit.
C20_GlobalSignal ==
  [][ \A g \in Guards :
        ( /\ DtorStep(g)
          /\ last.op = "make" /\ last.outcome = "ok" /\ last.g = g
          /\ uncaught > 0 )
        => /\ exit_type[g] = "ON_SUCCESS" => ~fired'[g]
           /\ exit_type[g] = "ON_FAILURE" => fired'[g] ]_vars

\* an ON_SUCCESS guard was constructed during unwinding, and destroyed
\* without invoking while that same exception was still in flight
C20_Witness ==
  \E g \in Guards :
    /\ st[g] = "destroyed"
    /\ exit_type[g] = "ON_SUCCESS"
    /\ moved_from[g] = 0 /\ g \notin MovedOut
    /\ ~dismissed[g]
    /\ ~fired[g]
    /\ last.op = "dtor" /\ last.g = g
    /\ uncaught > 0

\* C21: the action is invoked only inside a guard's end-of-life step: a
\* step of the maker, of the move constructor or of dismiss leaves the
\* number of invocations and every guard's fired mark as they were; and a
\* step of dismiss on guard g clears m_active of g and changes nothing
\* else of the guards: g stays alive, no guard is constructed or
\* destroyed, the stored actions, the policies and the flags of the other
\* guards are unchanged, and no exception is raised.
C21_OnlyDtorInvokes ==
  [][ /\ (invoked' # invoked \/ fired' # fired) => last'.op = "dtor"
      /\ last'.op \in {"make", "make_declared", "move", "dismiss"}
         => (invoked' = invoked /\ fired' = fired)
      /\ last'.op = "dismiss"
         => ( /\ last'.g \in Live
              /\ ~m_active'[last'.g]
              /\ \A h \in Guards \ {last'.g} : m_active'[h] = m_active[h]
              /\ st' = st
              /\ m_callback' = m_callback
              /\ callback' = callback
              /\ exit_type' = exit_type
              /\ moved_from' = moved_from
              /\ uncaught' = uncaught
              /\ terminated' = terminated ) ]_vars

\* a guard made by a move was dismissed for the first time while the guard
\* it was moved from was still alive, and no action has been invoked
C21_Witness ==
  /\ last.op = "dismiss"
  /\ dismiss_calls[last.g] = 1
  /\ st[last.g] = "live"
  /\ last.g \notin MovedOut
  /\ moved_from[last.g] # 0
  /\ st[moved_from[last.g]] = "live"
  /\ invoked = 0

\* C22: cancellation does not travel backwards through a relocation.  A
\* guard that has been moved from holds no right to invoke, and a dismiss
\* on it leaves the flag of every guard as it was, the guard it was moved
\* into included; a dismiss step takes the right to invoke away exactly
\* when it is called on the guard that holds it; and the end-of-life of a
\* guard that holds the right, made by a move from a guard that has been
\* dismissed, invokes the action exactly when its policy allows.
C22_DismissOnSourceHasNoEffect ==
  [][ /\ \A g \in MovedOut :
           (last'.op = "dismiss" /\ last'.g = g)
           => (~m_active[g] /\ m_active' = m_active)
      /\ last'.op = "dismiss"
         => {h \in Guards : m_active'[h]} =
              {h \in Guards : m_active[h]} \ {last'.g}
      /\ \A g \in Guards :
           ( /\ DtorStep(g)
             /\ m_active[g]
             /\ moved_from[g] # 0
             /\ dismissed[moved_from[g]] )
           => fired'[g] = should_run(exit_type[g], uncaught) ]_vars

\* guard G1 was moved into G2 and dismissed afterwards, G2 was never
\* dismissed, and the end-of-life of G2 has invoked the action
C22_Witness ==
  \E g \in Guards :
    /\ moved_from[g] # 0
    /\ moved_from[moved_from[g]] = 0
    /\ dismissed[moved_from[g]]
    /\ ~dismissed[g]
    /\ g \notin MovedOut
    /\ st[g] = "destroyed"
    /\ fired[g]
    /\ last.op = "dtor" /\ last.g = g

====
